---- MODULE Spec2Model ----
(***************************************************************************)
(* EdgeLLM dispatch engine: CostAwareRouter and InferenceEngine of         *)
(* src/edgellm/core/inference_engine.py.                                   *)
(*                                                                         *)
(* Numbers on the 0-1 scale (complexity, load) are kept in tenths, so the  *)
(* float literal 0.6 of the source is the integer 6 here.  A prompt is a   *)
(* sequence of segments: 0 is a run of whitespace, k > 0 is a block of k   *)
(* words separated by single blanks.  Two adjacent blocks touch without    *)
(* whitespace, so their edge words are one word for str.split().           *)
(***************************************************************************)
EXTENDS Integers, Sequences, FiniteSets, TLC

(* ---------------- bounds of the model ---------------- *)
MaxSegs == 2
NumThreads == 2
MaxClock == 1

(* ---------------- ModelProvider ---------------- *)
LOCAL_PHI4 == "local_phi4mini"
LOCAL_MISTRAL == "local_mistral7b"
GROQ_LLAMA70B == "groq_llama70b"
GROQ_LLAMA8B == "groq_llama8b"
ModelProvider == {LOCAL_PHI4, LOCAL_MISTRAL, GROQ_LLAMA70B, GROQ_LLAMA8B}
LocalProviders == {LOCAL_PHI4, LOCAL_MISTRAL}
NoProvider == "None"

(* ---------------- constants of the router ---------------- *)
WordsLow == 50
WordsHigh == 200
ScoreLow == 2
ScoreMid == 5
ScoreHigh == 8
EnterpriseCut == 6
PremiumHighCut == 7
PremiumLowCut == 4
StandardCut == 5
LoadCut == 8
LoadScale == 10
MsPerSecond == 1000

(* ---------------- requests ---------------- *)
Segments == {0, 1, WordsLow - 1, WordsLow, WordsHigh - 1, WordsHigh}
SeqsUpTo(S, n) == UNION {[1..k -> S] : k \in 0..n}
Prompts == SeqsUpTo(Segments, MaxSegs)
Tiers == {"standard", "premium", "enterprise", "gold", "Enterprise"}
MaxTokensValues == {0, 10}
InferenceRequest == [prompt : Prompts, max_tokens : MaxTokensValues, tier : Tiers]
Loads == 0..LoadScale

(* len(prompt.split()): whitespace runs separate, touching blocks share a word *)
RECURSIVE SplitFrom(_, _, _)
SplitFrom(prompt, i, glued) ==
    IF i > Len(prompt) THEN 0
    ELSE IF prompt[i] = 0 THEN SplitFrom(prompt, i + 1, FALSE)
    ELSE prompt[i] - (IF glued THEN 1 ELSE 0) + SplitFrom(prompt, i + 1, TRUE)
SplitLen(prompt) == SplitFrom(prompt, 1, FALSE)

(* ---------------- CostAwareRouter ---------------- *)
(* analyze_complexity with the first comparison written <= *)
analyze_complexity_le(prompt) ==
    LET tokens == SplitLen(prompt)
    IN  IF tokens <= WordsLow THEN ScoreLow
        ELSE IF tokens < WordsHigh THEN ScoreMid
        ELSE ScoreHigh

analyze_complexity(prompt) ==
    LET tokens == SplitLen(prompt)
    IN  IF tokens < WordsLow THEN ScoreLow
        ELSE IF tokens < WordsHigh THEN ScoreMid
        ELSE ScoreHigh

(* the enterprise block with the premium tier's lower cut *)
route_enterprise_lowcut(complexity) ==
    IF complexity > PremiumLowCut THEN GROQ_LLAMA70B ELSE LOCAL_MISTRAL

(* route, lines 91-95: the enterprise block *)
route_enterprise(complexity) ==
    IF complexity > EnterpriseCut THEN GROQ_LLAMA70B ELSE LOCAL_MISTRAL

(* the premium block with its two tests in the other order *)
route_premium_swapped(complexity) ==
    IF complexity > PremiumLowCut THEN LOCAL_MISTRAL
    ELSE IF complexity > PremiumHighCut THEN GROQ_LLAMA70B
    ELSE LOCAL_PHI4

(* route, lines 98-104: the premium block *)
route_premium(complexity) ==
    IF complexity > PremiumHighCut THEN GROQ_LLAMA70B
    ELSE IF complexity > PremiumLowCut THEN LOCAL_MISTRAL
    ELSE LOCAL_PHI4

(* the standard block shedding load only above the cut *)
route_standard_le(complexity, load) ==
    IF load <= LoadCut
    THEN IF complexity > StandardCut THEN LOCAL_MISTRAL ELSE LOCAL_PHI4
    ELSE GROQ_LLAMA8B

(* route, lines 107-114: the block every other tier falls into *)
route_standard(complexity, load) ==
    IF load < LoadCut
    THEN IF complexity > StandardCut THEN LOCAL_MISTRAL ELSE LOCAL_PHI4
    ELSE GROQ_LLAMA8B

(* route with the last block guarded by tier == "standard": any other tier *)
(* falls off the end of the function and gets None *)
route_strict(request, load) ==
    LET complexity == analyze_complexity(request.prompt)
    IN  IF request.tier = "enterprise" THEN route_enterprise(complexity)
        ELSE IF request.tier = "premium" THEN route_premium(complexity)
        ELSE IF request.tier = "standard" THEN route_standard(complexity, load)
        ELSE NoProvider

route(request, load) ==
    LET complexity == analyze_complexity(request.prompt)
    IN  IF request.tier = "enterprise" THEN route_enterprise(complexity)
        ELSE IF request.tier = "premium" THEN route_premium(complexity)
        ELSE route_standard(complexity, load)

(* ---------------- router.local_load ---------------- *)
IsLocal(model_provider) == model_provider \in {LOCAL_PHI4, LOCAL_MISTRAL}

(* a counter taken before the local call and given back only on return *)
LoadAfter_leak(load, model_provider, event) ==
    IF ~IsLocal(model_provider) THEN load
    ELSE IF event = "enter" THEN load + 1
    ELSE IF event = "return" THEN load - 1
    ELSE load

(* a counter taken before the local call and given back on every exit *)
LoadAfter_counted(load, model_provider, event) ==
    IF ~IsLocal(model_provider) THEN load
    ELSE IF event = "enter" THEN load + 1
    ELSE IF event \in {"return", "except"} THEN load - 1
    ELSE load

(* a router that books every local decision it makes *)
LoadAfter_route_counts(load, model_provider, event) ==
    IF event = "route" /\ IsLocal(model_provider) /\ load < LoadScale
    THEN load + 1 ELSE load

(* router.local_load after an event of a dispatch: "route" (route returned *)
(* model_provider), "enter" (the provider call begins), "return" and       *)
(* "except" (it ended).  __init__ holds the only assignment to local_load: *)
(* neither route nor infer writes it.                                      *)
LoadAfter(load, model_provider, event) == load

(* ---------------- InferenceResult ---------------- *)
UNAVAILABLE == "[Service temporarily unavailable - please retry]"
ON_PREMISE == "on-premise"
CLOUD_US == "cloud-us"
CloudLocations == {"cloud-eu", CLOUD_US}

InferenceResult(content, model_used, tokens_in, tokens_out, cost_eur, data_location, request_id) ==
    [content |-> content, model_used |-> model_used, latency_ms |-> 0,
     tokens_in |-> tokens_in, tokens_out |-> tokens_out, cost_eur |-> cost_eur,
     data_location |-> data_location, request_id |-> request_id]

NoResult == InferenceResult("", NoProvider, 0, 0, 0, "", <<"none", 0>>)
NoRequest == [prompt |-> <<>>, max_tokens |-> 0, tier |-> ""]

(* ---------------- what a backend call can produce ---------------- *)
FailureKinds == {"ProviderUnavailable", "ProviderTimeout", "ProviderProtocolError"}
Answer == [kind |-> "ok", content |-> "answer", tokens_in |-> 3, tokens_out |-> 5]
Failure(kind) == [kind |-> kind, content |-> "", tokens_in |-> 0, tokens_out |-> 0]
Outcomes == {Answer} \cup {Failure(k) : k \in FailureKinds}

(* exceptions raised inside the engine itself *)
ATTRIBUTE_ERROR == "AttributeError"
NOT_INITIALIZED == "RuntimeError: Groq client not initialized"
ExceptionKinds == FailureKinds \cup {ATTRIBUTE_ERROR, NOT_INITIALIZED}

(* ---------------- InferenceEngine ---------------- *)
ABSENT == "absent"
NONE == "None"
CLIENT == "client"

(* _init_providers: a failed import leaves both attributes unset; without *)
(* GROQ_API_KEY the cloud client is None *)
InitProviders(import_ok, groq_key) ==
    IF ~import_ok
    THEN [local_client |-> ABSENT, groq_client |-> ABSENT]
    ELSE [local_client |-> CLIENT,
          groq_client |-> IF groq_key # "" THEN CLIENT ELSE NONE]

Raised(exc, backend) == [exc |-> exc, backend |-> backend, result |-> NoResult]
Returned(backend, result) == [exc |-> "none", backend |-> backend, result |-> result]

(* _infer_local billing the completion tokens *)
InferLocal_billed(client, request, provider, outcome, clock) ==
    IF client = ABSENT THEN Raised(ATTRIBUTE_ERROR, "none")
    ELSE IF outcome.kind # "ok" THEN Raised(outcome.kind, "local")
    ELSE Returned("local",
            InferenceResult(outcome.content, provider, outcome.tokens_in,
                            outcome.tokens_out, outcome.tokens_out, ON_PREMISE,
                            <<"req", clock>>))

InferLocal(client, request, provider, outcome, clock) ==
    IF client = ABSENT THEN Raised(ATTRIBUTE_ERROR, "none")
    ELSE IF outcome.kind # "ok" THEN Raised(outcome.kind, "local")
    ELSE Returned("local",
            InferenceResult(outcome.content, provider, outcome.tokens_in,
                            outcome.tokens_out, 0, ON_PREMISE, <<"req", clock>>))

(* _infer_cloud with the location pasted from _infer_local *)
InferCloud_on_premise(client, request, provider, outcome, clock) ==
    IF client = ABSENT THEN Raised(ATTRIBUTE_ERROR, "none")
    ELSE IF client = NONE THEN Raised(NOT_INITIALIZED, "none")
    ELSE IF outcome.kind # "ok" THEN Raised(outcome.kind, "groq")
    ELSE Returned("groq",
            InferenceResult(outcome.content, provider, outcome.tokens_in,
                            outcome.tokens_out, 0, ON_PREMISE, <<"req", clock>>))

(* _infer_cloud without its "if not self.groq_client" test: the attribute *)
(* access on None raises AttributeError *)
InferCloud_unchecked(client, request, provider, outcome, clock) ==
    IF client \in {ABSENT, NONE} THEN Raised(ATTRIBUTE_ERROR, "none")
    ELSE IF outcome.kind # "ok" THEN Raised(outcome.kind, "groq")
    ELSE Returned("groq",
            InferenceResult(outcome.content, provider, outcome.tokens_in,
                            outcome.tokens_out, 0, CLOUD_US, <<"req", clock>>))

InferCloud(client, request, provider, outcome, clock) ==
    IF client = ABSENT THEN Raised(ATTRIBUTE_ERROR, "none")
    ELSE IF client = NONE THEN Raised(NOT_INITIALIZED, "none")
    ELSE IF outcome.kind # "ok" THEN Raised(outcome.kind, "groq")
    ELSE Returned("groq",
            InferenceResult(outcome.content, provider, outcome.tokens_in,
                            outcome.tokens_out, 0, CLOUD_US, <<"req", clock>>))

FallbackInfer(request, clock) ==
    InferenceResult(UNAVAILABLE, LOCAL_PHI4, 0, 0, 0, ON_PREMISE,
                    <<"fallback", clock \div MsPerSecond>>)

(* a handler written "except RuntimeError" *)
CaughtByInfer_runtime_only(exc) == exc = NOT_INITIALIZED

(* "except Exception" of infer: every kind above derives from Exception *)
CaughtByInfer(exc) == exc \in ExceptionKinds

(* (time.perf_counter() - start) * 1000, rounded up to whole milliseconds: *)
(* perf_counter is finer than the millisecond clock, and a provider call   *)
(* that returned an answer took more than no time                          *)
Elapsed(start_time, clock) == clock - start_time + 1

(* the backend calls (chat.completions.create) a provider call made *)
Calls(backend) == IF backend = "none" THEN 0 ELSE 1

(* infer whose handler tries the local backend once more before it degrades *)
InferBody_retry(clients, request, model_provider, start_time, outcome, clock) ==
    LET call == IF model_provider \in {LOCAL_PHI4, LOCAL_MISTRAL}
                THEN InferLocal(clients.local_client, request, model_provider, outcome, clock)
                ELSE InferCloud(clients.groq_client, request, model_provider, outcome, clock)
    IN  IF call.exc = "none"
        THEN [pc |-> "done", exc |-> "none", backend |-> call.backend,
              calls |-> Calls(call.backend),
              result |-> [call.result EXCEPT !.latency_ms = Elapsed(start_time, clock)]]
        ELSE [pc |-> "done", exc |-> call.exc, backend |-> "local",
              calls |-> Calls(call.backend) + 1,
              result |-> FallbackInfer(request, clock)]

(* infer from the try statement on: the call, then the result or the handler *)
InferBody(clients, request, model_provider, start_time, outcome, clock) ==
    LET call == IF model_provider \in {LOCAL_PHI4, LOCAL_MISTRAL}
                THEN InferLocal(clients.local_client, request, model_provider, outcome, clock)
                ELSE InferCloud(clients.groq_client, request, model_provider, outcome, clock)
    IN  IF call.exc = "none"
        THEN [pc |-> "done", exc |-> "none", backend |-> call.backend,
              calls |-> Calls(call.backend),
              result |-> [call.result EXCEPT !.latency_ms = Elapsed(start_time, clock)]]
        ELSE IF CaughtByInfer(call.exc)
        THEN [pc |-> "done", exc |-> call.exc, backend |-> call.backend,
              calls |-> Calls(call.backend),
              result |-> FallbackInfer(request, clock)]
        ELSE [pc |-> "raised", exc |-> call.exc, backend |-> call.backend,
              calls |-> Calls(call.backend),
              result |-> NoResult]

VARIABLES local_load, rt_pc, rt_request, rt_complexity, rt_provider,
          clients, now, pc, req, provider, start, result, err, backend, calls

vars == <<local_load, rt_pc, rt_request, rt_complexity, rt_provider,
          clients, now, pc, req, provider, start, result, err, backend, calls>>

routerVars == <<rt_pc, rt_request, rt_complexity, rt_provider>>
engineVars == <<clients, now, pc, req, provider, start, result, err, backend, calls>>

Threads == 1..NumThreads

Request(prompt, max_tokens, tier) ==
    [prompt |-> prompt, max_tokens |-> max_tokens, tier |-> tier]

(* the requests callers submit to the engine: one per routed provider the *)
(* engine can reach, and one per way a request can be malformed *)
EngineRequests ==
    { Request(<<1>>, 10, "standard"),
      Request(<<1>>, 10, "enterprise"),
      Request(<<WordsHigh>>, 10, "enterprise"),
      Request(<<1>>, 0, "standard"),
      Request(<<>>, 10, "standard"),
      Request(<<1>>, 10, "gold") }

(* the request of test_local_inference *)
TimedRequests == { Request(<<1>>, 10, "standard") }

(* InferenceEngine(): the providers are initialized, no thread is in infer *)
EngineInit ==
    /\ \E import_ok \in BOOLEAN, groq_key \in {"", "gsk"} :
          clients = InitProviders(import_ok, groq_key)
    /\ now = 0
    /\ pc = [t \in Threads |-> "idle"]
    /\ req = [t \in Threads |-> NoRequest]
    /\ provider = [t \in Threads |-> NoProvider]
    /\ start = [t \in Threads |-> 0]
    /\ result = [t \in Threads |-> NoResult]
    /\ err = [t \in Threads |-> "none"]
    /\ backend = [t \in Threads |-> "none"]
    /\ calls = [t \in Threads |-> 0]

(* CostAwareRouter(): load 0.0; nobody has called route directly *)
Init ==
    /\ local_load = 0
    /\ EngineInit
    /\ rt_pc = "ready"
    /\ rt_request = NoRequest
    /\ rt_complexity = 0
    /\ rt_provider = NoProvider

(* infer, lines 160-163: route the request and take the start time *)
InferBegin(t, request) ==
    /\ pc[t] \in {"idle", "done"}
    /\ req' = [req EXCEPT ![t] = request]
    /\ LET model_provider == route(request, local_load)
       IN  /\ provider' = [provider EXCEPT ![t] = model_provider]
           /\ local_load' = LoadAfter(LoadAfter(local_load, model_provider, "route"),
                                      model_provider, "enter")
    /\ start' = [start EXCEPT ![t] = now]
    /\ pc' = [pc EXCEPT ![t] = "invoking"]
    /\ result' = [result EXCEPT ![t] = NoResult]
    /\ err' = [err EXCEPT ![t] = "none"]
    /\ backend' = [backend EXCEPT ![t] = "none"]
    /\ calls' = [calls EXCEPT ![t] = 0]
    /\ UNCHANGED <<clients, now, routerVars>>

(* infer, lines 165-181: the provider call ends and infer returns *)
InferEnd(t, outcome) ==
    /\ pc[t] = "invoking"
    /\ LET out == InferBody(clients, req[t], provider[t], start[t], outcome, now)
       IN  /\ pc' = [pc EXCEPT ![t] = out.pc]
           /\ result' = [result EXCEPT ![t] = out.result]
           /\ err' = [err EXCEPT ![t] = out.exc]
           /\ backend' = [backend EXCEPT ![t] = out.backend]
           /\ calls' = [calls EXCEPT ![t] = out.calls]
           /\ local_load' = LoadAfter(local_load, provider[t],
                                      IF out.exc = "none" THEN "return" ELSE "except")
    /\ UNCHANGED <<clients, now, req, provider, start, routerVars>>

(* the backend of the routed provider, when the engine holds a client for it *)
BackendOf(model_provider) ==
    IF IsLocal(model_provider)
    THEN IF clients.local_client = CLIENT THEN "local" ELSE "none"
    ELSE IF clients.groq_client = CLIENT THEN "groq" ELSE "none"

(* chat.completions.create is called without a timeout and infer sets no *)
(* timer of its own: when the backend stays silent the call does not     *)
(* return, and no statement of infer runs for this dispatch again        *)
BackendSilent(t) ==
    /\ pc[t] = "invoking"
    /\ BackendOf(provider[t]) # "none"
    /\ pc' = [pc EXCEPT ![t] = "waiting"]
    /\ backend' = [backend EXCEPT ![t] = BackendOf(provider[t])]
    /\ calls' = [calls EXCEPT ![t] = 1]
    /\ UNCHANGED <<local_load, clients, now, req, provider, start, result, err, routerVars>>

(* time passes: one millisecond of time.time() and time.perf_counter() *)
Tick ==
    /\ now < MaxClock
    /\ now' = now + 1
    /\ UNCHANGED <<local_load, clients, pc, req, provider, start, result, err, backend,
                   calls, routerVars>>

(* concurrent callers of one engine; the clocks stand still here, and run *)
(* in SpecTimed below *)
Next ==
    \/ \E t \in Threads, request \in EngineRequests : InferBegin(t, request)
    \/ \E t \in Threads, outcome \in Outcomes : InferEnd(t, outcome)
    \/ \E t \in Threads : BackendSilent(t)

Spec == Init /\ [][Next]_vars

(* the same engine with the clocks running *)
TimedNext ==
    \/ \E t \in Threads, request \in TimedRequests : InferBegin(t, request)
    \/ \E t \in Threads, outcome \in Outcomes : InferEnd(t, outcome)
    \/ \E t \in Threads : BackendSilent(t)
    \/ Tick

SpecTimed == Init /\ [][TimedNext]_vars

(* a caller holding an engine's router with some load and a request to route *)
RouteInit ==
    /\ local_load \in Loads
    /\ EngineInit
    /\ rt_pc = "ready"
    /\ rt_request \in InferenceRequest
    /\ rt_complexity = 0
    /\ rt_provider = NoProvider

(* router.route(request), as test_tier_routing calls it; the caller may *)
(* call it again with the same request *)
RouteCall ==
    /\ rt_pc' = IF rt_pc = "ready" THEN "returned" ELSE "again"
    /\ rt_complexity' = analyze_complexity(rt_request.prompt)
    /\ rt_provider' = route(rt_request, local_load)
    /\ local_load' = LoadAfter(local_load, route(rt_request, local_load), "route")
    /\ UNCHANGED <<rt_request, engineVars>>

RouteNext == RouteCall

SpecRoute == RouteInit /\ [][RouteNext]_vars

(***************************************************************************)
(* Properties of the router, checked under SpecRoute                       *)
(***************************************************************************)
Routed == rt_pc # "ready"
Words == SplitLen(rt_request.prompt)

(* C3: an enterprise request is routed to GROQ_LLAMA70B when its complexity *)
(* is above 0.6, which is when the prompt has 200 words or more, and to     *)
(* LOCAL_MISTRAL otherwise, whatever the load; never to LOCAL_PHI4 or       *)
(* GROQ_LLAMA8B.                                                            *)
EnterpriseRouting ==
    (Routed /\ rt_request.tier = "enterprise") =>
        /\ (rt_complexity > 6) <=> (Words >= 200)
        /\ rt_provider = IF rt_complexity > 6 THEN GROQ_LLAMA70B ELSE LOCAL_MISTRAL
        /\ rt_provider \notin {LOCAL_PHI4, GROQ_LLAMA8B}

EnterpriseRoutingWitness ==
    /\ Routed /\ rt_request.tier = "enterprise"
    /\ Words >= 200 /\ local_load >= 8
    /\ rt_provider = GROQ_LLAMA70B

(* C4: a standard request is routed, under a load below 0.8, to            *)
(* LOCAL_MISTRAL when its complexity is above 0.5 and to LOCAL_PHI4         *)
(* otherwise (LOCAL_PHI4 for every prompt under 50 words); under a load of  *)
(* 0.8 or more it is routed to GROQ_LLAMA8B whatever the complexity.        *)
StandardRouting ==
    (Routed /\ rt_request.tier = "standard") =>
        IF local_load < 8
        THEN /\ rt_provider = IF rt_complexity > 5 THEN LOCAL_MISTRAL ELSE LOCAL_PHI4
             /\ (Words < 50) => rt_provider = LOCAL_PHI4
        ELSE rt_provider = GROQ_LLAMA8B

StandardRoutingWitness ==
    /\ Routed /\ rt_request.tier = "standard"
    /\ local_load = 8 /\ Words < 50
    /\ rt_provider = GROQ_LLAMA8B

(* C5: a premium request is routed to GROQ_LLAMA70B when its complexity is *)
(* above 0.7, to LOCAL_MISTRAL when it is above 0.4 and at most 0.7, and to *)
(* LOCAL_PHI4 otherwise, whatever the load.                                 *)
PremiumRouting ==
    (Routed /\ rt_request.tier = "premium") =>
        rt_provider = IF rt_complexity > 7 THEN GROQ_LLAMA70B
                      ELSE IF rt_complexity > 4 THEN LOCAL_MISTRAL
                      ELSE LOCAL_PHI4

PremiumRoutingWitness ==
    /\ Routed /\ rt_request.tier = "premium"
    /\ rt_complexity = 8 /\ local_load >= 8
    /\ rt_provider = GROQ_LLAMA70B

(* C6: the complexity of a prompt of n whitespace-delimited words is 0.2   *)
(* when n < 50, 0.5 when 50 <= n <= 199 and 0.8 when n >= 200; it is one of *)
(* these three values, within [0,1], for every prompt, the empty included.  *)
ComplexityStep ==
    Routed =>
        /\ rt_complexity = IF Words < 50 THEN 2 ELSE IF Words <= 199 THEN 5 ELSE 8
        /\ rt_complexity \in {2, 5, 8}
        /\ rt_complexity >= 0 /\ rt_complexity <= 10

ComplexityStepWitness ==
    /\ Routed
    /\ Len(rt_request.prompt) = 2 /\ Words = 50
    /\ rt_complexity = 5

(* C7: route returns one of the four providers for every tier string,      *)
(* complexity and load, and for a tier other than "enterprise" and          *)
(* "premium" the provider the standard rule gives for that complexity and   *)
(* load.                                                                    *)
RouteTotal ==
    Routed =>
        /\ rt_provider \in ModelProvider
        /\ rt_request.tier \notin {"enterprise", "premium"} =>
              rt_provider = IF local_load >= 8 THEN GROQ_LLAMA8B
                            ELSE IF rt_complexity > 5 THEN LOCAL_MISTRAL
                            ELSE LOCAL_PHI4

RouteTotalWitness ==
    /\ Routed /\ rt_request.tier = "gold"
    /\ Words >= 200 /\ local_load < 8
    /\ rt_provider = LOCAL_MISTRAL

(* C16: route is a pure function: a second call with the same request and *)
(* load returns the provider the first call returned, and a call changes   *)
(* neither router.local_load nor the request.                              *)
RoutePure ==
    [][ /\ Routed => rt_provider' = rt_provider
        /\ local_load' = local_load
        /\ rt_request' = rt_request ]_vars

RoutePureWitness ==
    /\ rt_pc = "again"
    /\ rt_request.tier = "standard" /\ local_load = 7
    /\ rt_provider = LOCAL_PHI4

(***************************************************************************)
(* Properties of the engine, checked under Spec                            *)
(***************************************************************************)
Failed(t) == err[t] # "none"
IsFallback(r) ==
    /\ r.model_used = LOCAL_PHI4
    /\ r.content = UNAVAILABLE
    /\ r.cost_eur = 0 /\ r.tokens_in = 0 /\ r.tokens_out = 0
    /\ r.data_location = "on-premise"

(* C1: when the invocation of the routed provider, local or cloud, fails   *)
(* with any failure kind, infer does not raise: it returns a result whose   *)
(* provider is LOCAL_PHI4, whose content is the unavailability marker, with *)
(* cost 0, tokens 0 and location on-premise.                                *)
FallbackOnFailure ==
    \A t \in Threads :
        /\ pc[t] # "raised"
        /\ Failed(t) => (pc[t] = "done" /\ IsFallback(result[t]))

FallbackOnFailureWitness ==
    \E t, u \in Threads :
        /\ pc[t] = "done" /\ err[t] = "ProviderTimeout"
        /\ provider[t] \in LocalProviders /\ backend[t] = "local"
        /\ pc[u] = "done" /\ err[u] = "ProviderUnavailable"
        /\ provider[u] \notin LocalProviders /\ backend[u] = "groq"
        /\ IsFallback(result[t]) /\ IsFallback(result[u])

(* C2: a request with max_tokens <= 0, an empty prompt or an unrecognized  *)
(* tier is rejected by infer before routing: no provider is routed to or    *)
(* invoked and no fallback result is made of it.                            *)
Malformed(request) ==
    \/ request.max_tokens <= 0
    \/ request.prompt = <<>>
    \/ request.tier \notin {"standard", "premium", "enterprise"}

MalformedRejected ==
    \A t \in Threads :
        (pc[t] # "idle" /\ Malformed(req[t])) =>
            /\ pc[t] = "rejected"
            /\ provider[t] = NoProvider
            /\ backend[t] = "none"

(* C8: every result infer returns has a location consistent with its       *)
(* provider: a local provider if and only if on-premise, a cloud provider   *)
(* if and only if a cloud location.                                         *)
ProviderLocationConsistent ==
    \A t \in Threads :
        pc[t] = "done" =>
            /\ result[t].model_used \in ModelProvider
            /\ (result[t].model_used \in {LOCAL_PHI4, LOCAL_MISTRAL})
                  <=> (result[t].data_location = "on-premise")
            /\ (result[t].model_used \in {GROQ_LLAMA70B, GROQ_LLAMA8B})
                  <=> (result[t].data_location \in CloudLocations)

ProviderLocationWitness ==
    \E t, u \in Threads :
        /\ pc[t] = "done" /\ ~Failed(t)
        /\ result[t].model_used = GROQ_LLAMA70B /\ result[t].data_location = "cloud-us"
        /\ pc[u] = "done" /\ Failed(u) /\ provider[u] = GROQ_LLAMA70B
        /\ result[u].data_location = "on-premise"

(* C9: every result whose provider is local, from a successful local call  *)
(* or from the fallback path, costs exactly zero.                           *)
LocalCostZero ==
    \A t \in Threads :
        (pc[t] = "done" /\ result[t].model_used \in {LOCAL_PHI4, LOCAL_MISTRAL}) =>
            result[t].cost_eur = 0

LocalCostZeroWitness ==
    \E t, u \in Threads :
        /\ pc[t] = "done" /\ ~Failed(t) /\ backend[t] = "local"
        /\ result[t].model_used = LOCAL_MISTRAL /\ result[t].tokens_out > 0
        /\ pc[u] = "done" /\ Failed(u) /\ result[u].model_used = LOCAL_PHI4

(* C10: while a dispatch routed to a local provider is inside its provider *)
(* call, local_load counts it: the load is above its baseline exactly when  *)
(* some local call is in flight.                                            *)
InFlightLocal ==
    {t \in Threads : pc[t] \in {"invoking", "waiting"} /\ provider[t] \in LocalProviders}

LoadCountsInFlight == (local_load > 0) <=> (InFlightLocal # {})

(* C11: once every dispatch that was started has completed, by success or  *)
(* by failure, local_load is back at its baseline 0, whatever the          *)
(* interleaving.                                                           *)
AllCompleted == \A t \in Threads : pc[t] \in {"idle", "done"}

LoadDrained == AllCompleted => local_load = 0

LoadDrainedWitness ==
    /\ AllCompleted /\ local_load = 0
    /\ \A t \in Threads : pc[t] = "done" /\ provider[t] \in LocalProviders
    /\ \E t, u \in Threads : Failed(t) /\ backend[t] = "local" /\ ~Failed(u)

(* C12: a dispatch goes from received to invoking to succeeded or degraded *)
(* and nowhere else: it is routed once, a backend is called at most once,  *)
(* and it is the backend of the routed provider; after a failure no        *)
(* backend is called again, the degraded result being built without one.   *)
DispatchSteps ==
    { <<"idle", "invoking">>, <<"done", "invoking">>, <<"invoking", "waiting">>,
      <<"invoking", "done">>, <<"idle", "rejected">>, <<"done", "rejected">> }

SingleCall ==
    \A t \in Threads :
        /\ calls[t] <= 1
        /\ backend[t] \in {"none", BackendOf(provider[t])}
        /\ (pc[t] = "done" /\ Failed(t)) => IsFallback(result[t])

SingleShotDispatch ==
    /\ []SingleCall
    /\ [][\A t \in Threads :
            /\ pc'[t] # pc[t] => <<pc[t], pc'[t]>> \in DispatchSteps
            /\ (pc[t] = "invoking" /\ pc'[t] = "done") => provider'[t] = provider[t]
            /\ (pc[t] = pc'[t]) => (calls'[t] = calls[t] /\ provider'[t] = provider[t])
         ]_vars

SingleShotWitness ==
    \E t \in Threads :
        /\ pc[t] = "done" /\ err[t] = "ProviderProtocolError"
        /\ provider[t] = GROQ_LLAMA70B /\ backend[t] = "groq" /\ calls[t] = 1
        /\ IsFallback(result[t])

(* C13: a dispatch always reaches a terminal state, also when the provider *)
(* never responds: a timeout ends the call as a ProviderTimeout failure.   *)
(* So whenever a dispatch is inside its provider call, with the backend    *)
(* silent or not, a step of infer that ends the call is possible.          *)
InProviderCall(t) == pc[t] \in {"invoking", "waiting"}

DispatchCanEnd ==
    \A t \in Threads :
        InProviderCall(t) => ENABLED (\E outcome \in Outcomes : InferEnd(t, outcome))

(* C15: with no cloud credential at startup the engine is still built and *)
(* local operation is unaffected: a dispatch routed to a local provider is *)
(* invoked on the local backend; a dispatch routed to a cloud provider     *)
(* always fails as not configured, without the cloud backend being         *)
(* contacted, and yields the fallback result.                              *)
NoCloudCredential == clients.groq_client = NONE

LocalOnlyOperation ==
    NoCloudCredential =>
        /\ clients.local_client = CLIENT
        /\ \A t \in Threads :
              /\ backend[t] # "groq"
              /\ (pc[t] = "done" /\ ~IsLocal(provider[t])) =>
                    /\ err[t] = NOT_INITIALIZED
                    /\ calls[t] = 0
                    /\ IsFallback(result[t])
              /\ (pc[t] = "done" /\ IsLocal(provider[t])) =>
                    /\ backend[t] = "local" /\ calls[t] = 1
                    /\ ~Failed(t) => result[t].model_used = provider[t]

LocalOnlyWitness ==
    /\ NoCloudCredential
    /\ \E t, u \in Threads :
          /\ pc[t] = "done" /\ provider[t] = GROQ_LLAMA70B
          /\ err[t] = NOT_INITIALIZED /\ IsFallback(result[t])
          /\ pc[u] = "done" /\ provider[u] = LOCAL_PHI4 /\ ~Failed(u)
          /\ result[u].content = "answer"

(* C18: through every sequence and interleaving of infer calls            *)
(* router.local_load keeps its initial value 0.0, so every request of tier *)
(* standard, or of an unrecognized tier, is routed to a local provider and *)
(* GROQ_LLAMA8B is never selected.                                         *)
LoadNeverWritten ==
    /\ local_load = 0
    /\ \A t \in Threads :
          pc[t] # "idle" =>
              /\ provider[t] # GROQ_LLAMA8B
              /\ req[t].tier \notin {"enterprise", "premium"} =>
                    provider[t] \in {LOCAL_PHI4, LOCAL_MISTRAL}

LoadNeverWrittenWitness ==
    /\ local_load = 0
    /\ \E t, u \in Threads :
          /\ pc[t] = "invoking" /\ req[t].tier = "standard" /\ provider[t] = LOCAL_PHI4
          /\ pc[u] = "done" /\ req[u].tier = "gold" /\ provider[u] = LOCAL_PHI4
          /\ backend[u] = "local"

(***************************************************************************)
(* Properties of the engine with the clocks running, checked under         *)
(* SpecTimed                                                               *)
(***************************************************************************)

(* C14: the results of two distinct dispatches of one engine, concurrent   *)
(* or not, successful or degraded, carry different request_id values, also *)
(* when both complete at the same clock reading.                           *)
UniqueRequestIds ==
    \A t, u \in Threads :
        (t # u /\ pc[t] = "done" /\ pc[u] = "done") =>
            result[t].request_id # result[u].request_id

(* C17: for a standard request on a fresh engine infer returns a result    *)
(* with non-empty content, a latency above 0 (the time infer measured      *)
(* around the call, in place of the adapter's 0.0), cost 0 and location    *)
(* on-premise.                                                             *)
StandardResultMeasured ==
    \A t \in Threads :
        (pc[t] = "done" /\ req[t].tier = "standard") =>
            /\ result[t].content # ""
            /\ result[t].latency_ms > 0
            /\ result[t].cost_eur = 0
            /\ result[t].data_location = "on-premise"
====
